---- MODULE Spec2Model ----
(***************************************************************************)
(* Model of the active-contour engine and of the border and feature        *)
(* detectors of transformations/border.py, of the Image record model of    *)
(* models/image.py, and of the Transform menu of interface.py.             *)
(*                                                                         *)
(* Pixels are <<row, col>> pairs, 0-based as in the source.  A single      *)
(* channel image is a function from pixels to intensities.  sigma is the   *)
(* mean of a region; it is kept as the exact fraction sum/count, and every *)
(* comparison with it is scaled by count, so no rounding is introduced.    *)
(*                                                                         *)
(* Python lists are sequences.  The list objects bound to the names lout   *)
(* and lin are kept in a heap (store) because the inductive mode works on  *)
(* the very objects that the previous frame's record holds.  phi is one    *)
(* array object for a whole chain of frames: it is allocated once by       *)
(* get_initial_boundaries and handed on by reference ever after.           *)
(***************************************************************************)
EXTENDS Integers, Sequences, FiniteSets, TLC

\* ------------------------------------------------------------------ bounds
Height == 5
Width == 5
MaxBright == 2
MaxFrames == 2
PassCap == 3

Thresholds == {1, 2}
Shifts == {<<0, 1>>, <<1, 0>>}
SetOrders == {"ascending", "descending"}

VARIABLES
    image,          \* data of the frame being processed
    p1, p2,         \* corners of the initial rectangle, <<row, col>>
    threshold,
    sigma,          \* [sum, count]: the mean sum/count
    phi,            \* the phi array object
    store,          \* heap of list objects: object id -> contents
    lout, lin,      \* the list objects the names lout and lin are bound to
    remove_lout, remove_lin,
    flag,
    pc,             \* "start", "while", "lout", "lin", "done"
    i,              \* position of the running for loop, 1-based
    frame,          \* number of the frame being processed, 1 = base run
    order,          \* iteration order of a Python set in this execution
    results,        \* per frame, the ImageChannelTransformation returned
    recorded,       \* per frame, the contents of phi/lout/lin on return
    seeded,         \* per frame, the contents of phi/lout/lin on entry
    passes,         \* passes of the while loop in the current run (capped)
    switched,       \* switches of the current pass (capped)
    images,         \* the Image objects made so far
    tlists,         \* heap of the transformations lists of the images
    call            \* the running call of apply/combine_over_channels

aoVars == <<image, p1, p2, threshold, sigma, phi, store, lout, lin,
            remove_lout, remove_lin, flag, pc, i, frame, order, results,
            recorded, seeded, passes, switched>>

imVars == <<images, tlists>>

vars == <<aoVars, imVars, call>>

\* ----------------------------------------------------------------- helpers
Pixels == (0 .. Height - 1) \X (0 .. Width - 1)

Abs(n) == IF n < 0 THEN -n ELSE n

Range(s) == {s[k] : k \in DOMAIN s}

Key(p) == p[1] * Width + p[2]

\* the pixels of S in row-major order
Sorted(S) ==
    [k \in 1 .. Cardinality(S) |->
        CHOOSE p \in S : Cardinality({q \in S : Key(q) < Key(p)}) = k - 1]

Reverse(s) == [k \in 1 .. Len(s) |-> s[Len(s) + 1 - k]]

\* list(S) for a Python set S: the elements in the iteration order of the set.
\* The order is fixed by the hashing of the interpreter; it is one of SetOrders,
\* the same for a whole execution, and is drawn when a set is first listed.
set_to_list(S, o) == IF o = "ascending" THEN Sorted(S) ELSE Reverse(Sorted(S))

Cap(n) == IF n < PassCap THEN n + 1 ELSE n

\* --------------------------------------------------------------- border.py
indices_4 == << <<-1, 0>>, <<0, -1>>, <<1, 0>>, <<0, 1>> >>

\* in_bounds with the last column cut off
in_bounds_short(x, y) == 0 <= x /\ x < Width - 1 /\ 0 <= y /\ y < Height

in_bounds(x, y) == 0 <= x /\ x < Width /\ 0 <= y /\ y < Height

is_lout(val) == val > 0

is_lin(val) == val < 0

condition(name, val) == IF name = "is_lout" THEN is_lout(val) ELSE is_lin(val)

\* range(a, b + 1) as a sequence
RangeSeq(a, b) == [k \in 1 .. (IF b >= a THEN b - a + 1 ELSE 0) |-> a + k - 1]

get_rectangular_boundary(x, y) ==
    LET xs == RangeSeq(x[1], x[2])
        ys == RangeSeq(y[1], y[2])
    IN [k \in 1 .. Len(xs) |-> <<y[1], xs[k]>>] \o
       [k \in 1 .. Len(xs) |-> <<y[2], xs[k]>>] \o
       [k \in 1 .. Len(ys) |-> <<ys[k], x[1]>>] \o
       [k \in 1 .. Len(ys) |-> <<ys[k], x[2]>>]

\* mean of data[y0:y1, x0:x1], as the fraction sum/count
RECURSIVE SumSeq(_, _, _)
SumSeq(data, s, k) == IF k = 0 THEN 0 ELSE data[s[k]] + SumSeq(data, s, k - 1)

SumOver(data, S) == SumSeq(data, Sorted(S), Cardinality(S))

calculate_sigma(data, x, y) ==
    LET region == {p \in Pixels : y[1] <= p[1] /\ p[1] < y[2] /\ x[1] <= p[2] /\ p[2] < x[2]}
    IN [sum |-> SumOver(data, region), count |-> Cardinality(region)]

get_initial_boundaries(x, y) ==
    LET inside(p, ylo, yhi, xlo, xhi) == ylo <= p[1] /\ p[1] < yhi /\ xlo <= p[2] /\ p[2] < xhi
    IN [lout |-> get_rectangular_boundary(x, y),
        lin  |-> get_rectangular_boundary(<<x[1] + 1, x[2] - 1>>, <<y[1] + 1, y[2] - 1>>),
        phi  |-> [p \in Pixels |->
                    IF inside(p, y[1] + 2, y[2] - 1, x[1] + 2, x[2] - 1) THEN -3
                    ELSE IF inside(p, y[1] + 1, y[2], x[1] + 1, x[2]) THEN -1
                    ELSE IF inside(p, y[1], y[2] + 1, x[1], x[2] + 1) THEN 1
                    ELSE 3]]

\* st is [phi, add_collection, remove_collection]
check_value_state(point, st, cond, new_value) ==
    LET neighbor == ~ \E k \in 1 .. 4 :
            LET phi_y == point[1] + indices_4[k][1]
                phi_x == point[2] + indices_4[k][2]
            IN in_bounds(phi_x, phi_y) /\ condition(cond, st.phi[<<phi_y, phi_x>>])
    IN IF neighbor
       THEN [st EXCEPT !.phi[point] = new_value,
                       !.remove_collection = Append(@, point)]
       ELSE st

\* the body of the loop of new_phi_values for indices[k]
new_phi_values_index(k, st, point, target, new_value, delete_condition) ==
    LET phi_y == point[1] + indices_4[k][1]
        phi_x == point[2] + indices_4[k][2]
        q == <<phi_y, phi_x>>
    IN IF ~ in_bounds(phi_x, phi_y) THEN st
       ELSE IF st.phi[q] = target
       THEN [st EXCEPT !.add_collection = Append(@, q), !.phi[q] = new_value]
       ELSE IF st.phi[q] = -new_value
       THEN check_value_state(q, st, delete_condition, -target)
       ELSE st

\* for index in indices: ...   (each intermediate state is bound to its value
\* by a one-element set, so that it is computed once)
new_phi_values(st, point, target, new_value, delete_condition) ==
    CHOOSE s4 \in
      {new_phi_values_index(4, s3, point, target, new_value, delete_condition) :
        s3 \in {new_phi_values_index(3, s2, point, target, new_value, delete_condition) :
          s2 \in {new_phi_values_index(2, s1, point, target, new_value, delete_condition) :
            s1 \in {new_phi_values_index(1, s0, point, target, new_value, delete_condition) :
              s0 \in {st}}}}} : TRUE

\* np.linalg.norm(sigma - image[point]) * sigma.count
norm(point) == Abs(sigma.sum - image[point] * sigma.count)

\* norm_lout <= threshold
norm_lout_not_above(point) == norm(point) <= threshold * sigma.count

\* norm_lout < threshold
norm_lout_below(point) == norm(point) < threshold * sigma.count

\* norm_lin > threshold
norm_lin_above(point) == norm(point) > threshold * sigma.count

\* norm_lin >= threshold
norm_lin_not_below(point) == norm(point) >= threshold * sigma.count

\* The list objects.  <<0, n>> are the two lists get_initial_boundaries makes;
\* <<f, n>> are the lists the rebinding at the end of a pass of frame f makes
\* (the lists of an earlier pass of the same frame are garbage by then).
ListIds == (0 .. MaxFrames) \X {"lout", "lin"}

Lout == store[lout]

Lin == store[lin]

EmptyStore == [id \in ListIds |-> << >>]

\* ------------------------------------------------------------------ actions
ValidRectangles ==
    {r \in Pixels \X Pixels :
        /\ 1 <= r[1][1] /\ r[1][1] + 2 <= r[2][1] /\ r[2][1] <= Height - 2
        /\ 1 <= r[1][2] /\ r[1][2] + 2 <= r[2][2] /\ r[2][2] <= Width - 2}

\* The frame data: a dark image (intensity 0) with bright pixels (intensity 2),
\* the bright pixels being at most MaxBright scattered pixels or one full
\* rectangular block (an object on a contrasting background).
Scattered == {{}} \cup {Range(f) : f \in [1 .. MaxBright -> Pixels]}

Blocks ==
    {{p \in Pixels : c[1][1] <= p[1] /\ p[1] <= c[2][1] /\ c[1][2] <= p[2] /\ p[2] <= c[2][2]} :
        c \in {d \in Pixels \X Pixels : d[1][1] <= d[2][1] /\ d[1][2] <= d[2][2]}}

BrightSets == Scattered \cup Blocks

Images == {[p \in Pixels |-> IF p \in B THEN 2 ELSE 0] : B \in BrightSets}

NoCall == [status |-> "idle"]

Init ==
    /\ images = << >> /\ tlists = << >> /\ call = NoCall
    /\ image \in Images
    /\ threshold \in Thresholds
    /\ \E r \in ValidRectangles : p1 = r[1] /\ p2 = r[2]
    /\ order = "unset"
    /\ sigma = [sum |-> 0, count |-> 1]
    /\ phi = [p \in Pixels |-> 3]
    /\ store = EmptyStore
    /\ lout = <<0, "lout">> /\ lin = <<0, "lin">>
    /\ remove_lout = << >> /\ remove_lin = << >>
    /\ flag = FALSE
    /\ pc = "start"
    /\ i = 1
    /\ frame = 1
    /\ results = << >>
    /\ recorded = << >>
    /\ seeded = << >>
    /\ passes = 0
    /\ switched = 0

\* active_outline_base up to the entry of the while loop
active_outline_base ==
    /\ pc = "start"
    /\ LET x == <<p1[2], p2[2]>>
           y == <<p1[1], p2[1]>>
           b == get_initial_boundaries(x, y)
       IN /\ sigma' = calculate_sigma(image, x, y)
          /\ phi' = b.phi
          /\ store' = [store EXCEPT ![<<0, "lout">>] = b.lout, ![<<0, "lin">>] = b.lin]
          /\ seeded' = Append(seeded, [phi |-> b.phi, lout |-> b.lout, lin |-> b.lin])
    /\ lout' = <<0, "lout">> /\ lin' = <<0, "lin">>
    /\ remove_lout' = << >> /\ remove_lin' = << >>
    /\ flag' = TRUE
    /\ pc' = "while"
    /\ i' = 1
    /\ passes' = 0 /\ switched' = 0
    /\ UNCHANGED <<imVars, call, image, p1, p2, threshold, frame, order, results, recorded>>

\* while flag: without flag = False
WhileLoop_keeps_flag ==
    /\ pc = "while" /\ flag
    /\ pc' = "lout"
    /\ i' = 1
    /\ passes' = Cap(passes)
    /\ switched' = 0
    /\ UNCHANGED <<imVars, call, image, p1, p2, threshold, sigma, phi, store, lout, lin,
                   remove_lout, remove_lin, flag, frame, order, results, recorded, seeded>>

\* while flag: flag = False
WhileLoop ==
    /\ pc = "while" /\ flag
    /\ flag' = FALSE
    /\ pc' = "lout"
    /\ i' = 1
    /\ passes' = Cap(passes)
    /\ switched' = 0
    /\ UNCHANGED <<imVars, call, image, p1, p2, threshold, sigma, phi, store, lout, lin,
                   remove_lout, remove_lin, frame, order, results, recorded, seeded>>

\* one iteration of: for point in lout
LoutStep ==
    /\ pc = "lout" /\ i <= Len(Lout)
    /\ LET point == Lout[i] IN
         IF norm_lout_below(point)
         THEN LET st == new_phi_values(
                           [phi |-> [phi EXCEPT ![point] = -1],
                            add_collection |-> Lout,
                            remove_collection |-> remove_lin],
                           point, 3, 1, "is_lout")
                  withLin == [store EXCEPT ![lin] = Append(@, point)]
              IN /\ store' = [withLin EXCEPT ![lout] = st.add_collection]
                 /\ remove_lout' = Append(remove_lout, point)
                 /\ remove_lin' = st.remove_collection
                 /\ phi' = st.phi
                 /\ flag' = TRUE
                 /\ switched' = Cap(switched)
         ELSE UNCHANGED <<store, remove_lout, remove_lin, phi, flag, switched>>
    /\ i' = i + 1
    /\ UNCHANGED <<imVars, call, image, p1, p2, threshold, sigma, lout, lin, pc, frame, order,
                   results, recorded, seeded, passes>>

\* the for loop over lout is exhausted
LoutDone ==
    /\ pc = "lout" /\ i > Len(Lout)
    /\ pc' = "lin"
    /\ i' = 1
    /\ UNCHANGED <<imVars, call, image, p1, p2, threshold, sigma, phi, store, lout, lin,
                   remove_lout, remove_lin, flag, frame, order, results, recorded,
                   seeded, passes, switched>>

\* one iteration of: for point in lin
LinStep ==
    /\ pc = "lin" /\ i <= Len(Lin)
    /\ LET point == Lin[i] IN
         IF norm_lin_not_below(point)
         THEN LET st == new_phi_values(
                           [phi |-> [phi EXCEPT ![point] = 1],
                            add_collection |-> Lin,
                            remove_collection |-> remove_lout],
                           point, -3, -1, "is_lin")
                  withLout == [store EXCEPT ![lout] = Append(@, point)]
              IN /\ store' = [withLout EXCEPT ![lin] = st.add_collection]
                 /\ remove_lin' = Append(remove_lin, point)
                 /\ remove_lout' = st.remove_collection
                 /\ phi' = st.phi
                 /\ flag' = TRUE
                 /\ switched' = Cap(switched)
         ELSE UNCHANGED <<store, remove_lout, remove_lin, phi, flag, switched>>
    /\ i' = i + 1
    /\ UNCHANGED <<imVars, call, image, p1, p2, threshold, sigma, lout, lin, pc, frame, order,
                   results, recorded, seeded, passes>>

\* the for loop over lin is exhausted:
\* lout = [p for p in lout if p not in remove_lout]; the same for lin
Rebind_filters_lists ==
    /\ pc = "lin" /\ i > Len(Lin)
    /\ \E o \in (IF order = "unset" THEN SetOrders ELSE {order}) :
         /\ order' = o
         /\ store' = [store EXCEPT
                ![<<frame, "lout">>] = SelectSeq(Lout, LAMBDA p : p \notin Range(remove_lout)),
                ![<<frame, "lin">>]  = SelectSeq(Lin, LAMBDA p : p \notin Range(remove_lin))]
    /\ lout' = <<frame, "lout">> /\ lin' = <<frame, "lin">>
    /\ pc' = "while"
    /\ i' = 1
    /\ UNCHANGED <<imVars, call, image, p1, p2, threshold, sigma, phi, remove_lout, remove_lin,
                   flag, frame, results, recorded, seeded, passes, switched>>

\* the for loop over lin is exhausted:
\* lout = list(set(lout) - set(remove_lout)); lin = list(set(lin) - set(remove_lin))
Rebind ==
    /\ pc = "lin" /\ i > Len(Lin)
    /\ \E o \in (IF order = "unset" THEN SetOrders ELSE {order}) :
         /\ order' = o
         /\ store' = [store EXCEPT
                ![<<frame, "lout">>] = set_to_list(Range(Lout) \ Range(remove_lout), o),
                ![<<frame, "lin">>]  = set_to_list(Range(Lin) \ Range(remove_lin), o)]
    /\ lout' = <<frame, "lout">> /\ lin' = <<frame, "lin">>
    /\ pc' = "while"
    /\ i' = 1
    /\ UNCHANGED <<imVars, call, image, p1, p2, threshold, sigma, phi, remove_lout, remove_lin,
                   flag, frame, results, recorded, seeded, passes, switched>>

\* the while loop ends: return image, ImageChannelTransformation(...)
Return ==
    /\ pc = "while" /\ ~ flag
    /\ results' = Append(results, [threshold |-> threshold, sigma |-> sigma,
                                   phi |-> "phi", lout |-> lout, lin |-> lin])
    /\ recorded' = Append(recorded, [data |-> image, phi |-> phi, lout |-> Lout, lin |-> Lin])
    /\ pc' = "done"
    /\ UNCHANGED <<imVars, call, image, p1, p2, threshold, sigma, phi, store, lout, lin,
                   remove_lout, remove_lin, flag, i, frame, order, seeded,
                   passes, switched>>

\* the frames that may follow a frame: the same data, or the data moved by
\* one pixel (wrapping round the image edges)
Shift(data, d) ==
    [p \in Pixels |-> data[<<(p[1] - d[1]) % Height, (p[2] - d[2]) % Width>>]]

FrameData(data) == {data} \cup {Shift(data, d) : d \in Shifts}

\* the inputs fetched in the order ('threshold', 'sigma', 'lin', 'lout', 'phi')
inductive_call_swapped(prev_results, current) ==
    [image     |-> current,
     threshold |-> prev_results.threshold,
     sigma     |-> prev_results.sigma,
     lout      |-> prev_results.lin,
     lin       |-> prev_results.lout,
     phi       |-> prev_results.phi]

\* sigma computed again from the new frame
inductive_call_new_sigma(prev_results, current) ==
    [image     |-> current,
     threshold |-> prev_results.threshold,
     sigma     |-> calculate_sigma(current, <<p1[2], p2[2]>>, <<p1[1], p2[1]>>),
     lout      |-> prev_results.lout,
     lin       |-> prev_results.lin,
     phi       |-> prev_results.phi]

\* prev_results = prev.last_transformation.channel_transformations[0].all_results()
\* inputs = map(prev_results.get, ('threshold', 'sigma', 'lout', 'lin', 'phi'))
\* active_outline_all_channels(current.data, *inputs)
inductive_call(prev_results, current) ==
    [image     |-> current,
     threshold |-> prev_results.threshold,
     sigma     |-> prev_results.sigma,
     lout      |-> prev_results.lout,
     lin       |-> prev_results.lin,
     phi       |-> prev_results.phi]

\* active_outline_inductive up to the entry of the while loop
active_outline_inductive ==
    /\ pc = "done" /\ frame < MaxFrames
    /\ \E current \in FrameData(image) :
         LET args == inductive_call(results[frame], current)
         IN /\ image' = args.image
            /\ threshold' = args.threshold
            /\ sigma' = args.sigma
            /\ lout' = args.lout
            /\ lin' = args.lin
            /\ seeded' = Append(seeded, [phi |-> phi, lout |-> store[args.lout],
                                          lin |-> store[args.lin]])
    /\ remove_lout' = << >> /\ remove_lin' = << >>
    /\ flag' = TRUE
    /\ pc' = "while"
    /\ i' = 1
    /\ frame' = frame + 1
    /\ passes' = 0 /\ switched' = 0
    /\ UNCHANGED <<imVars, call, p1, p2, phi, store, order, results, recorded>>

Next ==
    \/ active_outline_base
    \/ active_outline_inductive
    \/ WhileLoop
    \/ LoutStep
    \/ LoutDone
    \/ LinStep
    \/ Rebind
    \/ Return

Spec == Init /\ [][Next]_vars

\* A call runs to completion: the interpreter always executes the next
\* statement of the running call.  Whether a further frame is processed is
\* up to the caller.
RunningCall ==
    \/ active_outline_base
    \/ WhileLoop
    \/ LoutStep
    \/ LoutDone
    \/ LinStep
    \/ Rebind
    \/ Return

\* Termination is checked on the runs whose first frame shows one bright
\* rectangular object, anywhere in the image.
InitObject ==
    /\ Init
    /\ {p \in Pixels : image[p] = 2} \in Blocks

FairSpec == InitObject /\ [][Next]_vars /\ WF_vars(RunningCall)

\* ---------------------------------------------------------------- image.py
\* The history of an image.  A transformations list is a Python list object;
\* tlists is the heap of these objects and an Image holds the index of its
\* list.  parent and given record how the image was made (0: by the loader).
MaxImages == 4

TransformationNames == {"sobel", "canny", "active_outline"}

AoQuiet ==
    /\ image = [p \in Pixels |-> 0]
    /\ threshold = 1
    /\ p1 = <<1, 1>> /\ p2 = <<Height - 2, Width - 2>>
    /\ order = "unset"
    /\ sigma = [sum |-> 0, count |-> 1]
    /\ phi = [p \in Pixels |-> 3]
    /\ store = EmptyStore
    /\ lout = <<0, "lout">> /\ lin = <<0, "lin">>
    /\ remove_lout = << >> /\ remove_lin = << >>
    /\ flag = FALSE
    /\ pc = "start"
    /\ i = 1
    /\ frame = 1
    /\ results = << >>
    /\ recorded = << >>
    /\ seeded = << >>
    /\ passes = 0
    /\ switched = 0

\* self.transformations = transformations if transformations else []
\* arg is 0 for None, else the list object passed; the result is the heap
\* and the list object the new image holds
Image_init(heap, arg) ==
    IF arg # 0 /\ heap[arg] # << >>
    THEN [heap |-> heap, transformations |-> arg]
    ELSE [heap |-> Append(heap, << >>), transformations |-> Len(heap) + 1]

\* self.transformations.append(transformation): the same list object
list_add_in_place(heap, self_transformations, transformation) ==
    [heap |-> [heap EXCEPT ![self_transformations] = Append(@, transformation)],
     list |-> self_transformations]

\* self.transformations + [transformation]: a new list object
list_add(heap, self_transformations, transformation) ==
    [heap |-> Append(heap, Append(heap[self_transformations], transformation)),
     list |-> Len(heap) + 1]

\* Image(name, fmt, data, movie=movie) as load_image and the create_*_image
\* functions call it
load_image ==
    /\ Len(images) < MaxImages
    /\ LET made == Image_init(tlists, 0)
       IN /\ tlists' = made.heap
          /\ images' = Append(images, [transformations |-> made.transformations,
                                        parent |-> 0, given |-> "none"])
    /\ UNCHANGED <<aoVars, call>>

\* Image.transform
transform(self, transformation) ==
    /\ Len(images) < MaxImages
    /\ LET added == list_add(tlists, images[self].transformations, transformation)
           made == Image_init(added.heap, added.list)
       IN /\ tlists' = made.heap
          /\ images' = Append(images, [transformations |-> made.transformations,
                                        parent |-> self, given |-> transformation])
    /\ UNCHANGED <<aoVars, call>>

InitImage == AoQuiet /\ images = << >> /\ tlists = << >> /\ call = NoCall

NextImage ==
    \/ load_image
    \/ \E self \in 1 .. Len(images), t \in TransformationNames : transform(self, t)

SpecImage == InitImage /\ [][NextImage]_vars

\* ------------------------------------------------- channels (image.py, border.py)
ChannelCounts == {1, 3}

\* the exported transformations that go through apply_over_channels, with the
\* channel function each passes
ChannelFunction ==
    [directional   |-> "directional_channel",
     high_pass     |-> "high_pass_channel",
     prewitt       |-> "prewitt_channel",
     sobel         |-> "sobel_channel",
     laplace       |-> "laplacian_channel",
     log           |-> "log_channel",
     susan         |-> "susan_channel",
     hough_lines   |-> "hough_lines_channel",
     hough_circles |-> "hough_circle_channel",
     canny         |-> "canny_channel",
     harris        |-> "harris_channel"]

OverChannels == DOMAIN ChannelFunction

\* the exported transformations that call active_outline_all_channels on the
\* whole data array
Direct == {"active_outline_base", "active_outline_inductive"}

Exported == OverChannels \cup Direct

\* what a channel function returns: an array, or a tuple
\* (array, ImageChannelTransformation)
returns_tuple(fn) ==
    fn \in {"hough_lines_channel", "hough_circle_channel", "active_outline_all_channels",
            "combine_tuple"}

\* the channels fn is invoked on, in order, by apply_over_channels
apply_channels(channels) ==
    IF channels = 1 THEN <<0>> ELSE [k \in 1 .. channels |-> k - 1]

\* the loop after the first iteration running over range(channels)
combine_channels_from_zero(channels) ==
    IF channels = 1 THEN <<0>> ELSE <<0>> \o [k \in 1 .. channels |-> k - 1]

\* the channels fn is invoked on, in order, by combine_over_channels
combine_channels(channels) ==
    IF channels = 1 THEN <<0>> ELSE <<0>> \o [k \in 1 .. channels - 1 |-> k]

\* the multi-channel branch without channels_tr.append(fn_ret[1])
collect_single_only(channels_tr, fn, channel) ==
    IF returns_tuple(fn) /\ channel = 0 THEN Append(channels_tr, channel) ELSE channels_tr

\* what the call does with fn_ret: channels_tr.append(fn_ret[1]) for a tuple
collect(channels_tr, fn, channel) ==
    IF returns_tuple(fn) THEN Append(channels_tr, channel) ELSE channels_tr

Running(c) == c.status = "running"

\* an exported transformation is called on an image with the given channels
export_call(name, channels) ==
    /\ ~ Running(call)
    /\ call' = IF name \in Direct
               THEN [status |-> "running", kind |-> "direct", name |-> name,
                     fn |-> "active_outline_all_channels", channels |-> channels,
                     other |-> channels, todo |-> <<0>>, invoked |-> << >>,
                     channels_tr |-> << >>, new_data |-> FALSE]
               ELSE [status |-> "running", kind |-> "apply", name |-> name,
                     fn |-> ChannelFunction[name], channels |-> channels,
                     other |-> channels, todo |-> apply_channels(channels),
                     invoked |-> << >>, channels_tr |-> << >>, new_data |-> FALSE]
    /\ UNCHANGED <<aoVars, imVars>>

\* Image.combine_over_channels up to the first invocation of fn
combine_call(fn, channels, other) ==
    /\ ~ Running(call)
    /\ call' = IF channels # other
               THEN [status |-> "raised", kind |-> "combine", name |-> "combine",
                     fn |-> fn, channels |-> channels, other |-> other,
                     todo |-> << >>, invoked |-> << >>, channels_tr |-> << >>,
                     new_data |-> FALSE]
               ELSE [status |-> "running", kind |-> "combine", name |-> "combine",
                     fn |-> fn, channels |-> channels, other |-> other,
                     todo |-> combine_channels(channels), invoked |-> << >>,
                     channels_tr |-> << >>, new_data |-> FALSE]
    /\ UNCHANGED <<aoVars, imVars>>

\* fn_ret = fn(...) on the next channel, and the handling of fn_ret
fn_step ==
    /\ Running(call) /\ call.todo # << >>
    /\ LET channel == Head(call.todo)
       IN call' = [call EXCEPT !.todo = Tail(@),
                               !.invoked = Append(@, channel),
                               !.channels_tr = collect(@, call.fn, channel)]
    /\ UNCHANGED <<aoVars, imVars>>

\* return new_data, channels_tr   (return img, [tr] for the active outline)
return_call ==
    /\ Running(call) /\ call.todo = << >>
    /\ call' = [call EXCEPT !.status = "returned", !.new_data = TRUE]
    /\ UNCHANGED <<aoVars, imVars>>

InitChannels == AoQuiet /\ images = << >> /\ tlists = << >> /\ call = NoCall

NextChannels ==
    \/ \E name \in Exported, channels \in ChannelCounts : export_call(name, channels)
    \/ \E fn \in {"combine_array", "combine_tuple"}, channels \in ChannelCounts,
          other \in ChannelCounts : combine_call(fn, channels, other)
    \/ fn_step
    \/ return_call

SpecChannels == InitChannels /\ [][NextChannels]_vars

\* ------------------------------------------------ detectors (border.py)
\* The channel functions are pure: a call is drawn with its arguments, runs
\* statement by statement and returns or raises.  The record call holds the
\* arguments, the position and the locals of the running call.  Arrays of the
\* detectors are Side x Side, indexed by <<row, col>>.
Side == 3

MaxEdges == 3

MAX_COLOR == 255

Grid == (0 .. Side - 1) \X (0 .. Side - 1)

max(a, b) == IF a >= b THEN a ELSE b

min(a, b) == IF a <= b THEN a ELSE b

\* np.amax of a non-empty set of values
amax(S) == CHOOSE v \in S : \A w \in S : w <= v

\* np.amin of a non-empty set of values
amin(S) == CHOOSE v \in S : \A w \in S : v <= w

DetectorInit == AoQuiet /\ images = << >> /\ tlists = << >> /\ call = NoCall

\* ---- canny_channel from the normalized gradient on (lines 331-349)
\* the values of the normalized gradient modulus: 0, an intermediate value, 255
Magnitudes == {0, 100, MAX_COLOR}

\* t1, t2 with 0 <= t1 < t2 <= 255
CannyThresholds == {<<50, 200>>, <<100, MAX_COLOR>>}

\* What normalize returns for the suppressed gradient modulus: a constant
\* array, or an array whose minimum is 0 and whose maximum is 255.  At most
\* MaxEdges pixels are not 0.
NormalizedGradients ==
    {g \in [Grid -> Magnitudes] :
        \/ \A p \in Grid : g[p] = g[<<0, 0>>]
        \/ /\ Cardinality({p \in Grid : g[p] # 0}) <= MaxEdges
           /\ \E p \in Grid : g[p] = MAX_COLOR
           /\ \E p \in Grid : g[p] = 0}

\* gradient_mod[gradient_mod >= t2] = MAX_COLOR; gradient_mod[gradient_mod <= t1] = 0
hysteresis_thresholding(gradient_mod, t1, t2) ==
    LET high == [p \in Grid |-> IF gradient_mod[p] >= t2 THEN MAX_COLOR ELSE gradient_mod[p]]
    IN [p \in Grid |-> IF high[p] <= t1 THEN 0 ELSE high[p]]

\* canny_drag_borders that only promotes: a pixel without a MAX_COLOR
\* neighbour keeps its value
canny_drag_borders_promotes(gradient_mod, t1, t2, max_col, max_row, row, col) ==
    IF t1 < gradient_mod[<<row, col>>] /\ gradient_mod[<<row, col>>] < t2
    THEN LET neighbour ==
                 {gradient_mod[<<r, c>>] :
                     r \in max(row - 1, 0) .. min(row + 2, max_row) - 1,
                     c \in max(col - 1, 0) .. min(col + 2, max_col) - 1}
         IN [gradient_mod EXCEPT
                ![<<row, col>>] = IF amax(neighbour) = MAX_COLOR THEN MAX_COLOR ELSE @]
    ELSE gradient_mod

\* canny_drag_borders: the array after the call (it is updated in place)
canny_drag_borders(gradient_mod, t1, t2, max_col, max_row, row, col) ==
    IF t1 < gradient_mod[<<row, col>>] /\ gradient_mod[<<row, col>>] < t2
    THEN LET neighbour ==
                 {gradient_mod[<<r, c>>] :
                     r \in max(row - 1, 0) .. min(row + 2, max_row) - 1,
                     c \in max(col - 1, 0) .. min(col + 2, max_col) - 1}
         IN [gradient_mod EXCEPT
                ![<<row, col>>] = IF amax(neighbour) = MAX_COLOR THEN MAX_COLOR ELSE 0]
    ELSE gradient_mod

\* canny_channel from the normalized gradient up to the first loop
canny_call(normalized, t) ==
    /\ call = NoCall
    /\ call' = [status |-> "running", fn |-> "canny_channel",
                t1 |-> t[1], t2 |-> t[2],
                thresholded |-> hysteresis_thresholding(normalized, t[1], t[2]),
                gradient_mod |-> hysteresis_thresholding(normalized, t[1], t[2]),
                max_row |-> Side, max_col |-> Side,
                loop |-> "vertical", row |-> 0, col |-> 0]
    /\ UNCHANGED <<aoVars, imVars>>

\* one iteration of: for row in range(max_row): for col in range(max_col)
drag_vertical ==
    /\ call.status = "running" /\ call.fn = "canny_channel" /\ call.loop = "vertical"
    /\ LET dragged == canny_drag_borders(call.gradient_mod, call.t1, call.t2,
                                         call.max_col, call.max_row, call.row, call.col)
           last_col == call.col = call.max_col - 1
           last == last_col /\ call.row = call.max_row - 1
       IN call' = [call EXCEPT !.gradient_mod = dragged,
                               !.col = IF last_col THEN 0 ELSE @ + 1,
                               !.row = IF last THEN 0 ELSE IF last_col THEN @ + 1 ELSE @,
                               !.loop = IF last THEN "horizontal" ELSE @]
    /\ UNCHANGED <<aoVars, imVars>>

\* one iteration of: for col in range(max_col): for row in range(max_row)
drag_horizontal ==
    /\ call.status = "running" /\ call.fn = "canny_channel" /\ call.loop = "horizontal"
    /\ LET dragged == canny_drag_borders(call.gradient_mod, call.t1, call.t2,
                                         call.max_col, call.max_row, call.row, call.col)
           last_row == call.row = call.max_row - 1
           last == last_row /\ call.col = call.max_col - 1
       IN call' = [call EXCEPT !.gradient_mod = dragged,
                               !.row = IF last_row THEN 0 ELSE @ + 1,
                               !.col = IF last THEN 0 ELSE IF last_row THEN @ + 1 ELSE @,
                               !.loop = IF last THEN "end" ELSE @]
    /\ UNCHANGED <<aoVars, imVars>>

\* return gradient_mod
canny_return ==
    /\ call.status = "running" /\ call.fn = "canny_channel" /\ call.loop = "end"
    /\ call' = [call EXCEPT !.status = "returned"]
    /\ UNCHANGED <<aoVars, imVars>>

NextCanny ==
    \/ \E normalized \in NormalizedGradients, t \in CannyThresholds : canny_call(normalized, t)
    \/ drag_vertical
    \/ drag_horizontal
    \/ canny_return

SpecCanny == DetectorInit /\ [][NextCanny]_vars

\* ---- harris_channel from the smoothed second moments on (lines 352-389)
\* Real numbers are exact fractions [num, den] with den > 0.
Frac(n, d) == [num |-> n, den |-> d]

lt(a, b) == a.num * b.den < b.num * a.den

gt(a, b) == lt(b, a)

eq(a, b) == a.num * b.den = b.num * a.den

Pixel == 1 .. Side

\* ix2, ixy, iy2 at one pixel: Gaussian-smoothed dx*dx, dx*dy, dy*dy
Moments == {<<0, 0, 0>>, <<1, 0, 1>>, <<5, 0, 1>>, <<1, 1, 1>>, <<4, -2, 1>>, <<2, 0, 3>>}

HarrisK == {Frac(0, 1), Frac(4, 100)}

HarrisThresholds == {0, 51, MAX_COLOR}

HarrisR == {"R1", "R2"}

\* calculate_r1: det - k*trace with det = ix2*iy2 - ixy*ixy, trace = sum*sum
calculate_r1(ix2, ixy, iy2, k) ==
    [n \in DOMAIN ix2 |->
        LET det == ix2[n] * iy2[n] - ixy[n] * ixy[n]
            sum == ix2[n] + iy2[n]
            trace == sum * sum
        IN Frac(det * k.den - k.num * trace, k.den)]

\* calculate_r2 with the determinant of calculate_r1
calculate_r2_det_r1(ix2, ixy, iy2, k) ==
    [n \in DOMAIN ix2 |->
        LET det == ix2[n] * iy2[n] - ixy[n] * ixy[n]
            sum == ix2[n] + iy2[n]
        IN Frac(det * k.den - k.num * sum * sum, k.den)]

\* calculate_r2: det - k*sum*sum with det = ix2*iy2 - ixy*4
calculate_r2(ix2, ixy, iy2, k) ==
    [n \in DOMAIN ix2 |->
        LET det == ix2[n] * iy2[n] - ixy[n] * 4
            sum == ix2[n] + iy2[n]
        IN Frac(det * k.den - k.num * sum * sum, k.den)]

\* HarrisR.__call__
r_function_call(r_function, ix2, ixy, iy2, k) ==
    IF r_function = "R1" THEN calculate_r1(ix2, ixy, iy2, k)
    ELSE calculate_r2(ix2, ixy, iy2, k)

\* np.abs
np_abs(r) == [n \in DOMAIN r |-> Frac(Abs(r[n].num), r[n].den)]

\* normalize(data, np.float64) for a float array whose elements share one
\* denominator; data[0, 0] is the first element
normalize(data) ==
    LET nums == {data[n].num : n \in DOMAIN data}
        top == amax(nums)
        bottom == amin(nums)
    IN IF top - bottom = 0
       THEN [n \in DOMAIN data |-> Frac(min(data[1].num \div data[1].den, 255), 1)]
       ELSE [n \in DOMAIN data |-> Frac((data[n].num - bottom) * 255, top - bottom)]

\* harris_channel once ix2, ixy, iy2 are computed, up to the call of r_function
harris_call(moments, k, thr, r_function) ==
    /\ call = NoCall
    /\ call' = [status |-> "running", fn |-> "harris_channel", at |-> "r",
                ix2 |-> [n \in Pixel |-> moments[n][1]],
                ixy |-> [n \in Pixel |-> moments[n][2]],
                iy2 |-> [n \in Pixel |-> moments[n][3]],
                k |-> k, threshold |-> Frac(thr, 1), r_function |-> r_function]
    /\ UNCHANGED <<aoVars, imVars>>

\* r = r_function(ix2, ixy, iy2, k)
harris_response ==
    /\ call.status = "running" /\ call.fn = "harris_channel" /\ call.at = "r"
    /\ call' = [status |-> "running", fn |-> "harris_channel", at |-> "normalize",
                ix2 |-> call.ix2, ixy |-> call.ixy, iy2 |-> call.iy2,
                k |-> call.k, threshold |-> call.threshold, r_function |-> call.r_function,
                r |-> r_function_call(call.r_function, call.ix2, call.ixy, call.iy2, call.k)]
    /\ UNCHANGED <<aoVars, imVars>>

\* negative_mask = r < 0; r_abs = np.abs(r); normalized_r = normalize(r_abs, np.float64)
harris_normalize ==
    /\ call.status = "running" /\ call.fn = "harris_channel" /\ call.at = "normalize"
    /\ call' = [status |-> "running", fn |-> "harris_channel", at |-> "below",
                ix2 |-> call.ix2, ixy |-> call.ixy, iy2 |-> call.iy2,
                k |-> call.k, threshold |-> call.threshold, r_function |-> call.r_function,
                r |-> call.r,
                negative_mask |-> [n \in Pixel |-> call.r[n].num < 0],
                raw |-> normalize(np_abs(call.r)),
                normalized_r |-> normalize(np_abs(call.r))]
    /\ UNCHANGED <<aoVars, imVars>>

\* normalized_r[(normalized_r < threshold)] = 0
harris_below ==
    /\ call.status = "running" /\ call.fn = "harris_channel" /\ call.at = "below"
    /\ call' = [call EXCEPT
          !.at = "negative",
          !.normalized_r = [n \in Pixel |-> IF lt(@[n], call.threshold) THEN Frac(0, 1) ELSE @[n]]]
    /\ UNCHANGED <<aoVars, imVars>>

\* normalized_r[(normalized_r > threshold) & negative_mask] = 125
harris_above_negative ==
    /\ call.status = "running" /\ call.fn = "harris_channel" /\ call.at = "negative"
    /\ call' = [call EXCEPT
          !.at = "positive",
          !.normalized_r = [n \in Pixel |->
              IF gt(@[n], call.threshold) /\ call.negative_mask[n] THEN Frac(125, 1) ELSE @[n]]]
    /\ UNCHANGED <<aoVars, imVars>>

\* normalized_r[(normalized_r > threshold) & np.logical_not(negative_mask)] = 255
harris_above_positive ==
    /\ call.status = "running" /\ call.fn = "harris_channel" /\ call.at = "positive"
    /\ call' = [call EXCEPT
          !.at = "return",
          !.normalized_r = [n \in Pixel |->
              IF gt(@[n], call.threshold) /\ ~ call.negative_mask[n] THEN Frac(255, 1) ELSE @[n]]]
    /\ UNCHANGED <<aoVars, imVars>>

\* return normalized_r
harris_return ==
    /\ call.status = "running" /\ call.fn = "harris_channel" /\ call.at = "return"
    /\ call' = [call EXCEPT !.status = "returned"]
    /\ UNCHANGED <<aoVars, imVars>>

NextHarris ==
    \/ \E moments \in [Pixel -> Moments], k \in HarrisK, thr \in HarrisThresholds,
          r_function \in HarrisR : harris_call(moments, k, thr, r_function)
    \/ harris_response
    \/ harris_normalize
    \/ harris_below
    \/ harris_above_negative
    \/ harris_above_positive
    \/ harris_return

SpecHarris == DetectorInit /\ [][NextHarris]_vars

\* ---- susan_channel (lines 107-115, 210-225)
\* FamousKernel.SUSAN, rows and columns numbered from 0
SUSAN ==
    <<<<0, 0, 1, 1, 1, 0, 0>>,
      <<0, 1, 1, 1, 1, 1, 0>>,
      <<1, 1, 1, 1, 1, 1, 1>>,
      <<1, 1, 1, 1, 1, 1, 1>>,
      <<1, 1, 1, 1, 1, 1, 1>>,
      <<0, 1, 1, 1, 1, 1, 0>>,
      <<0, 0, 1, 1, 1, 0, 0>>>>

\* the cells of the kernel, <<row, col>>
KernelCells == (0 .. Len(SUSAN) - 1) \X (0 .. Len(SUSAN) - 1)

kernel_at(d) == SUSAN[d[1] + 1][d[2] + 1]

\* the centre of the kernel
Half == Len(SUSAN) \div 2

\* pixel intensities of the channels given to susan_channel
Intensities == {5, 20, 200}

\* The channel has the shape of the kernel, so that its one interior pixel is
\* <<Half, Half>>.  A channel shows a rectangular region, from the top left
\* corner, of one intensity on a background of another.
SusanChannels ==
    {[p \in KernelCells |-> IF p[1] <= r /\ p[2] <= c THEN a ELSE b] :
        r \in 0 .. Len(SUSAN) - 1, c \in 0 .. Len(SUSAN) - 1,
        a \in Intensities, b \in Intensities}

\* sliding_window(channel, np.shape(kernel), padding_str)[row, col] for an
\* interior pixel: the neighbourhood of the shape of the kernel centred on it
sliding_window(channel, row, col) ==
    [d \in KernelCells |-> channel[<<row + d[1] - Half, col + d[2] - Half>>]]

\* np.sum over the cells of a window
RECURSIVE np_sum(_, _)
np_sum(window, cells) ==
    IF cells = {} THEN 0
    ELSE LET d == CHOOSE e \in cells : TRUE
         IN window[d] + np_sum(window, cells \ {d})

\* np.absolute(sw[:,:]*kernel - new_channel[:,:]) at one pixel
absolute_values_of(sw, centre) ==
    [d \in KernelCells |-> Abs(sw[d] * kernel_at(d) - centre)]

\* absolute_values[absolute_values < 15] = 1; absolute_values[absolute_values >= 15] = 0
similar(absolute_values) ==
    LET ones == [d \in KernelCells |-> IF absolute_values[d] < 15 THEN 1 ELSE absolute_values[d]]
    IN [d \in KernelCells |-> IF ones[d] >= 15 THEN 0 ELSE ones[d]]

\* the three assignments to values, in order
susan_bands_of(value) ==
    LET first == IF lt(value, Frac(2, 5)) \/ ~ lt(value, Frac(17, 20)) THEN Frac(0, 1) ELSE value
        second == IF ~ lt(first, Frac(2, 5)) /\ lt(first, Frac(13, 20)) THEN Frac(63, 1) ELSE first
    IN IF ~ lt(second, Frac(13, 20)) /\ lt(second, Frac(17, 20)) THEN Frac(255, 1) ELSE second

\* susan_channel up to the computation of absolute_values, at the interior pixel
susan_call(channel) ==
    /\ call = NoCall
    /\ call' = [status |-> "running", fn |-> "susan_channel", at |-> "absolute",
                channel |-> channel, row |-> Half, col |-> Half,
                sw |-> sliding_window(channel, Half, Half)]
    /\ UNCHANGED <<aoVars, imVars>>

\* absolute_values = np.absolute(sw*kernel - new_channel) and its recoding to 1 and 0
susan_absolute ==
    /\ call.status = "running" /\ call.fn = "susan_channel" /\ call.at = "absolute"
    /\ call' = [status |-> "running", fn |-> "susan_channel", at |-> "values",
                channel |-> call.channel, row |-> call.row, col |-> call.col, sw |-> call.sw,
                absolute_values |->
                    similar(absolute_values_of(call.sw, call.channel[<<call.row, call.col>>]))]
    /\ UNCHANGED <<aoVars, imVars>>

\* values = 1 - np.sum(absolute_values, axis=(2, 3)) / kernel.size
susan_values ==
    /\ call.status = "running" /\ call.fn = "susan_channel" /\ call.at = "values"
    /\ LET count == np_sum(call.absolute_values, KernelCells)
           size == Cardinality(KernelCells)
       IN call' = [status |-> "running", fn |-> "susan_channel", at |-> "bands",
                   channel |-> call.channel, row |-> call.row, col |-> call.col, sw |-> call.sw,
                   absolute_values |-> call.absolute_values,
                   similar_count |-> count,
                   values |-> Frac(size - count, size)]
    /\ UNCHANGED <<aoVars, imVars>>

\* the thresholding of values into 0, 63 and 255, and return values
susan_return ==
    /\ call.status = "running" /\ call.fn = "susan_channel" /\ call.at = "bands"
    /\ call' = [call EXCEPT !.status = "returned", !.at = "return",
                            !.values = susan_bands_of(@)]
    /\ UNCHANGED <<aoVars, imVars>>

NextSusan ==
    \/ \E channel \in SusanChannels : susan_call(channel)
    \/ susan_absolute
    \/ susan_values
    \/ susan_return

SpecSusan == DetectorInit /\ [][NextSusan]_vars

\* ---- zero crossing (lines 160-186)
\* values of a filtered channel
Filtered == {-2, 0, 1}

ZeroCrossingThresholds == {1, 3}

\* The filtered channels: a profile repeated along the rows or along the
\* columns, with at most one pixel set to another value.
FilteredChannels ==
    LET profiles == [0 .. Side - 1 -> Filtered]
        plain == {[p \in Grid |-> f[p[2]]] : f \in profiles}
                     \cup {[p \in Grid |-> f[p[1]]] : f \in profiles}
    IN plain \cup {[d EXCEPT ![q] = v] : d \in plain, q \in Grid, v \in Filtered}

\* the sign changes with or without a 0 in between, along the columns (dr, dc
\* = 1, 0) or along the rows (dr, dc = 0, 1); the last row or column is False
crossing(data, thr, dr, dc) ==
    LET at(p, n) == <<p[1] + n * dr, p[2] + n * dc>>
        direct(p) ==
            /\ at(p, 1) \in Grid
            /\ data[p] * data[at(p, 1)] < 0
            /\ Abs(data[p] - data[at(p, 1)]) > thr
        spaced(p) ==
            /\ at(p, 2) \in Grid
            /\ data[p] * data[at(p, 2)] < 0
            /\ data[at(p, 1)] = 0
            /\ Abs(data[p] - data[at(p, 2)]) > thr
    IN [p \in Grid |-> direct(p) \/ spaced(p)]

\* zero_crossing_vertical
zero_crossing_vertical(data, thr) == crossing(data, thr, 1, 0)

\* zero_crossing_horizontal without the changes with a 0 in between
zero_crossing_horizontal_direct(data, thr) ==
    [p \in Grid |->
        /\ p[2] + 1 < Side
        /\ data[p] * data[<<p[1], p[2] + 1>>] < 0
        /\ Abs(data[p] - data[<<p[1], p[2] + 1>>]) > thr]

\* zero_crossing_horizontal
zero_crossing_horizontal(data, thr) == crossing(data, thr, 0, 1)

\* zero_crossing_borders up to the call of zero_crossing_vertical
zero_crossing_call(data, thr) ==
    /\ call = NoCall
    /\ call' = [status |-> "running", fn |-> "zero_crossing_borders", at |-> "vertical",
                data |-> data, threshold |-> thr]
    /\ UNCHANGED <<aoVars, imVars>>

\* zero_crossing_vertical(data, threshold)
crossing_vertical ==
    /\ call.status = "running" /\ call.fn = "zero_crossing_borders" /\ call.at = "vertical"
    /\ call' = [status |-> "running", fn |-> "zero_crossing_borders", at |-> "horizontal",
                data |-> call.data, threshold |-> call.threshold,
                vertical |-> zero_crossing_vertical(call.data, call.threshold)]
    /\ UNCHANGED <<aoVars, imVars>>

\* mask = ... | zero_crossing_horizontal(data, threshold)
crossing_horizontal ==
    /\ call.status = "running" /\ call.fn = "zero_crossing_borders" /\ call.at = "horizontal"
    /\ LET horizontal == zero_crossing_horizontal(call.data, call.threshold)
       IN call' = [status |-> "running", fn |-> "zero_crossing_borders", at |-> "ret",
                   data |-> call.data, threshold |-> call.threshold,
                   vertical |-> call.vertical, horizontal |-> horizontal,
                   mask |-> [p \in Grid |-> call.vertical[p] \/ horizontal[p]]]
    /\ UNCHANGED <<aoVars, imVars>>

\* ret = np.zeros(data.shape); ret[mask] = MAX_COLOR; return ret
crossing_return ==
    /\ call.status = "running" /\ call.fn = "zero_crossing_borders" /\ call.at = "ret"
    /\ call' = [status |-> "returned", fn |-> "zero_crossing_borders", at |-> "ret",
                data |-> call.data, threshold |-> call.threshold,
                vertical |-> call.vertical, horizontal |-> call.horizontal,
                mask |-> call.mask,
                ret |-> [p \in Grid |-> IF call.mask[p] THEN MAX_COLOR ELSE 0]]
    /\ UNCHANGED <<aoVars, imVars>>

NextZeroCrossing ==
    \/ \E data \in FilteredChannels, thr \in ZeroCrossingThresholds : zero_crossing_call(data, thr)
    \/ crossing_vertical
    \/ crossing_horizontal
    \/ crossing_return

SpecZeroCrossing == DetectorInit /\ [][NextZeroCrossing]_vars

\* ---- prewitt_channel, sobel_channel (lines 87-96, 148-158)
\* FamousKernel.PREWITT with a right column of 2
PREWITT_unbalanced ==
    <<<<-1, 0, 2>>,
      <<-1, 0, 2>>,
      <<-1, 0, 2>>>>

\* FamousKernel.PREWITT
PREWITT ==
    <<<<-1, 0, 1>>,
      <<-1, 0, 1>>,
      <<-1, 0, 1>>>>

\* FamousKernel.SOBEL
SOBEL ==
    <<<<-1, 0, 1>>,
      <<-2, 0, 2>>,
      <<-1, 0, 1>>>>

\* PaddingStrategy: zero-fill and replicate-edge
PaddingStrategies == {"zero", "replicate"}

\* the channels given to the gradient detectors: constant channels, and
\* channels of two intensities that change along the rows or the columns
GradientChannels ==
    LET profiles == [0 .. Side - 1 -> {0, 200}]
    IN {[p \in Grid |-> c] : c \in {0} \cup Intensities}
           \cup {[p \in Grid |-> f[p[2]]] : f \in profiles}
           \cup {[p \in Grid |-> f[p[1]]] : f \in profiles}

\* the value a window reads at p, inside or outside the channel
padded(channel, padding_str, p) ==
    IF p \in Grid THEN channel[p]
    ELSE IF padding_str = "zero" THEN 0
    ELSE channel[<<max(0, min(Side - 1, p[1])), max(0, min(Side - 1, p[2]))>>]

\* weighted_sum(channel, kernel, padding_str): the correlation of the channel
\* with a 3x3 kernel, the output having the shape of the input
weighted_sum(channel, kernel, padding_str) ==
    [p \in Grid |->
        LET term(a, b) == kernel[a][b] * padded(channel, padding_str, <<p[1] + a - 2, p[2] + b - 2>>)
        IN term(1, 1) + term(1, 2) + term(1, 3)
           + term(2, 1) + term(2, 2) + term(2, 3)
           + term(3, 1) + term(3, 2) + term(3, 3)]

\* np.rot90(kernel, k=-1): a quarter turn clockwise
rot90_clockwise(kernel) ==
    [a \in 1 .. Len(kernel) |-> [b \in 1 .. Len(kernel) |-> kernel[Len(kernel) + 1 - b][a]]]

\* gradient_modulus, the modulus given by its square: np.sqrt is not applied
gradient_modulus_squared(x_channel, y_channel) ==
    [p \in Grid |-> y_channel[p] * y_channel[p] + x_channel[p] * x_channel[p]]

\* prewitt_channel / sobel_channel up to the first weighted_sum of gradient_modulus
gradient_call(fn, channel, padding_str) ==
    /\ call = NoCall
    /\ call' = [status |-> "running", fn |-> fn, at |-> "x_channel",
                img |-> channel, padding_str |-> padding_str,
                kernel |-> IF fn = "prewitt_channel" THEN PREWITT ELSE SOBEL]
    /\ UNCHANGED <<aoVars, imVars>>

\* x_channel = weighted_sum(img, kernel, padding_str); kernel = np.rot90(kernel, k=-1)
gradient_x ==
    /\ call.status = "running" /\ call.fn \in {"prewitt_channel", "sobel_channel"}
    /\ call.at = "x_channel"
    /\ call' = [status |-> "running", fn |-> call.fn, at |-> "y_channel",
                img |-> call.img, padding_str |-> call.padding_str,
                kernel |-> rot90_clockwise(call.kernel),
                x_channel |-> weighted_sum(call.img, call.kernel, call.padding_str)]
    /\ UNCHANGED <<aoVars, imVars>>

\* y_channel = weighted_sum(img, kernel, padding_str)
gradient_y ==
    /\ call.status = "running" /\ call.fn \in {"prewitt_channel", "sobel_channel"}
    /\ call.at = "y_channel"
    /\ call' = [status |-> "running", fn |-> call.fn, at |-> "return",
                img |-> call.img, padding_str |-> call.padding_str,
                kernel |-> call.kernel, x_channel |-> call.x_channel,
                y_channel |-> weighted_sum(call.img, call.kernel, call.padding_str)]
    /\ UNCHANGED <<aoVars, imVars>>

\* return np.sqrt(y_channel ** 2 + x_channel ** 2)
gradient_return ==
    /\ call.status = "running" /\ call.fn \in {"prewitt_channel", "sobel_channel"}
    /\ call.at = "return"
    /\ call' = [status |-> "returned", fn |-> call.fn, at |-> "return",
                img |-> call.img, padding_str |-> call.padding_str,
                kernel |-> call.kernel, x_channel |-> call.x_channel,
                y_channel |-> call.y_channel,
                squared |-> gradient_modulus_squared(call.x_channel, call.y_channel)]
    /\ UNCHANGED <<aoVars, imVars>>

NextGradient ==
    \/ \E fn \in {"prewitt_channel", "sobel_channel"}, channel \in GradientChannels,
          padding_str \in PaddingStrategies : gradient_call(fn, channel, padding_str)
    \/ gradient_x
    \/ gradient_y
    \/ gradient_return

SpecGradient == DetectorInit /\ [][NextGradient]_vars

\* ---- Direction, directional_channel (lines 17-83, 97-106, 139-141)
\* Direction: the value of each member is a nested list
Direction ==
    [VERTICAL          |-> <<<<0, 1, 0>>, <<0, 1, 0>>, <<0, 1, 0>>>>,
     NEGATIVE_DIAGONAL |-> <<<<1, 0, 0>>, <<0, 1, 0>>, <<0, 0, 1>>>>,
     HORIZONTAL        |-> <<<<0, 0, 0>>, <<1, 1, 1>>, <<0, 0, 0>>>>,
     POSITIVE_DIAGONAL |-> <<<<0, 0, 1>>, <<0, 1, 0>>, <<1, 0, 0>>>>]

\* FamousKernel.LAPLACE
LAPLACE ==
    <<<<0, -1, 0>>,
      <<-1, 4, -1>>,
      <<0, -1, 0>>>>

\* FamousKernel.JULIANA
JULIANA ==
    <<<<1, 1, -1>>,
      <<1, -2, -1>>,
      <<1, 1, -1>>>>

\* the 3x3 kernels given as vertical_kernel: the famous ones, and the kernels
\* with any top row over two zero rows around a centre of 1
VerticalKernels ==
    {PREWITT, SOBEL, LAPLACE, JULIANA}
        \cup {<<<<a, b, c>>, <<0, 1, 0>>, <<0, 0, 0>>>> : a \in -1 .. 1, b \in -1 .. 1, c \in -1 .. 1}

\* A Python value as numpy sees it when it is passed as shift: its number of
\* dimensions (0 for an int, 2 for a list of lists) and the value.
as_array(value, ndim) == [ndim |-> ndim, value |-> value]

\* the result of a call: a value, or the exception raised
Returned(value) == [raised |-> "", value |-> value]

Raised(exception) == [raised |-> exception, value |-> << >>]

\* a .. b as a sequence, upwards (step 1) or from b down to a (step -1)
Upwards(a, b) == [k \in 1 .. (b - a + 1) |-> a + k - 1]

Downwards(b, a) == [k \in 1 .. (b - a + 1) |-> b - k + 1]

\* Direction._outer_slice(idx[n:N - n, n:N - n]), as <<row, col>> cells:
\* np.r_[x[0], x[1:-1, -1], x[-1, :0:-1], x[-1:0:-1, 0]]
outer_slice(N, n) ==
    LET first == n
        last == N - n - 1
        top == [k \in 1 .. (last - first + 1) |-> <<first, Upwards(first, last)[k]>>]
        right == [k \in 1 .. (last - first - 1) |-> <<Upwards(first + 1, last - 1)[k], last>>]
        bottom == [k \in 1 .. (last - first) |-> <<last, Downwards(last, first + 1)[k]>>]
        left == [k \in 1 .. (last - first) |-> <<Downwards(last, first + 1)[k], first>>]
    IN top \o right \o bottom \o left

\* np.roll(a, shift) for a 1-D a: shift and axis must broadcast to at most one
\* dimension, else ValueError
np_roll(a, shift) ==
    IF shift.ndim > 1 THEN Raised("ValueError")
    ELSE Returned([k \in 1 .. Len(a) |-> a[((k - 1 - shift.value) % Len(a)) + 1]])

\* the body of the loop of _rotate_matrix for ring n and the rings after it;
\* out and x are functions of <<row, col>>
RECURSIVE rotate_rings(_, _, _, _, _)
rotate_rings(out, x, N, n, shift) ==
    IF n >= (N + 1) \div 2 THEN Returned(out)
    ELSE LET sliced_idx == outer_slice(N, n)
             rolled == np_roll([k \in 1 .. Len(sliced_idx) |-> x[sliced_idx[k]]], shift)
         IN IF rolled.raised # "" THEN rolled
            ELSE rotate_rings(
                     [p \in DOMAIN out |->
                         IF \E k \in 1 .. Len(sliced_idx) : sliced_idx[k] = p
                         THEN rolled.value[CHOOSE k \in 1 .. Len(sliced_idx) : sliced_idx[k] = p]
                         ELSE out[p]],
                     x, N, n + 1, shift)

\* Direction._rotate_matrix(x, shift); np.empty_like(x) is given the values of x
rotate_matrix(x, shift) ==
    LET N == Len(x)
        cells == (0 .. N - 1) \X (0 .. N - 1)
        array == [p \in cells |-> x[p[1] + 1][p[2] + 1]]
        rotated == rotate_rings(array, array, N, 0, shift)
    IN IF rotated.raised # "" THEN rotated
       ELSE Returned([a \in 1 .. N |-> [b \in 1 .. N |-> rotated.value[<<a - 1, b - 1>>]]])

\* Direction.align_vertical_kernel: self._rotate_matrix(kernel, self.value)
align_vertical_kernel(self, kernel) ==
    rotate_matrix(kernel, as_array(Direction[self], 2))

\* directional_channel up to the call of align_vertical_kernel
directional_call(vertical_kernel, border_dir) ==
    /\ call = NoCall
    /\ call' = [status |-> "running", fn |-> "directional_channel",
                vertical_kernel |-> vertical_kernel, border_dir |-> border_dir]
    /\ UNCHANGED <<aoVars, imVars>>

\* kernel = border_dir.align_vertical_kernel(vertical_kernel): an exception
\* ends the call
directional_align ==
    /\ call.status = "running" /\ call.fn = "directional_channel"
    /\ LET aligned == align_vertical_kernel(call.border_dir, call.vertical_kernel)
       IN call' = [status |-> IF aligned.raised # "" THEN "raised" ELSE "aligned",
                   fn |-> "directional_channel",
                   vertical_kernel |-> call.vertical_kernel, border_dir |-> call.border_dir,
                   raised |-> aligned.raised, kernel |-> aligned.value]
    /\ UNCHANGED <<aoVars, imVars>>

NextDirectional ==
    \/ \E vertical_kernel \in VerticalKernels, border_dir \in DOMAIN Direction :
          directional_call(vertical_kernel, border_dir)
    \/ directional_align

SpecDirectional == DetectorInit /\ [][NextDirectional]_vars

\* ---- hough_lines_channel, get_border_points (lines 227-247, 273-295)
\* The angles are 0 and 90 degrees and rho is an integer, as np.linspace gives
\* for integer ends one apart.  sin and cos are then 0 and 1, but for
\* np.cos(np.pi / 2) = 6.1e-17: a positive number so small that it changes no
\* comparison of the accumulator (the thresholds lie half way between
\* integers), that dividing a non-zero integer by it leaves the image, and
\* that subtracting max_x times it from rho gives rho or the float below rho.
Thetas == {<<0>>, <<90>>, <<0, 90>>}

\* rho.to_linspace() for LinRange(start, end, end - start + 1)
to_linspace(start, end) == [k \in 1 .. (end - start + 1) |-> start + k - 1]

Rhos == {to_linspace(start, end) : start \in -1 .. Side, end \in -1 .. Side} \ {<< >>}

HoughThresholds == {Frac(1, 2), Frac(3, 2)}

MostFittedRatios == {Frac(1, 2), Frac(9, 10)}

\* the binary channels: the white pixels are a full row, a full column, or at
\* most one pixel
BinaryChannels ==
    {[p \in Grid |-> IF p[1] = r THEN MAX_COLOR ELSE 0] : r \in 0 .. Side - 1}
        \cup {[p \in Grid |-> IF p[2] = c THEN MAX_COLOR ELSE 0] : c \in 0 .. Side - 1}
        \cup {[p \in Grid |-> IF p = q THEN MAX_COLOR ELSE 0] : q \in Grid}
        \cup {[p \in Grid |-> 0]}

\* LineDrawCmd(y0, x0, y1, x1)
LineDrawCmd(y0, x0, y1, x1) == [y0 |-> y0, x0 |-> x0, y1 |-> y1, x1 |-> x1]

\* np.abs(np.sum(params * indices, axis=2)) < threshold at pixel <<y, x>>:
\* |rho - y*sin(theta) - x*cos(theta)| < threshold
on_line(rho, theta, p, thr) ==
    LET distance == IF theta = 0 THEN Abs(rho - p[2]) ELSE Abs(rho - p[1])
    IN lt(Frac(distance, 1), thr)

\* the two loops that fill acum
accumulate(channel, theta, rho, thr) ==
    [c \in (1 .. Len(rho)) \X (1 .. Len(theta)) |->
        Cardinality({p \in Grid : channel[p] > 0 /\ on_line(rho[c[1]], theta[c[2]], p, thr)})]

\* np.argwhere(acum > most_fitted_ratio * acum.max()), in row-major order, as
\* the rows (rho, theta) of best
best_of(acum, theta, rho, ratio) ==
    LET top == amax({acum[c] : c \in DOMAIN acum})
        fitted(c) == acum[c] * ratio.den > ratio.num * top
        cells == [k \in 1 .. Len(rho) * Len(theta) |->
                     <<((k - 1) \div Len(theta)) + 1, ((k - 1) % Len(theta)) + 1>>]
    IN [k \in 1 .. Len(rho) * Len(theta) |->
           IF fitted(cells[k]) THEN <<<<rho[cells[k][1]], theta[cells[k][2]]>>>> ELSE << >>]

\* the concatenation of a sequence of sequences
RECURSIVE Flatten(_)
Flatten(seqs) == IF seqs = << >> THEN << >> ELSE Head(seqs) \o Flatten(Tail(seqs))

\* get_border_points(rho, theta, img_shape).  For theta = 90 degrees, steep
\* stands for 1/cos(theta), and rounds_below tells whether rho - max_x*cos(theta)
\* is computed as the float below rho (TRUE) or as rho itself.
get_border_points(rho, theta, img_shape, rounds_below) ==
    IF theta = 0
    THEN Returned(LineDrawCmd(0, rho, img_shape[1] - 1, rho))
    ELSE LET max_y == img_shape[1] - 1
             max_x == img_shape[2] - 1
             steep == max_x + max_y + 1
             x_0 == rho * steep
             x_f == (rho - max_y) * steep
             y_0 == rho
             y_f == rho
             y_f_below == y_f < max_y \/ (y_f = max_y /\ max_x > 0 /\ rounds_below)
             ans == (IF 0 < x_0 /\ x_0 < max_x THEN <<<<0, x_0>>>> ELSE << >>)
                    \o (IF 0 < x_f /\ x_f < max_x THEN <<<<max_y, x_f>>>> ELSE << >>)
                    \o (IF 0 < y_0 /\ y_0 < max_y THEN <<<<y_0, 0>>>> ELSE << >>)
                    \o (IF 0 < y_f /\ y_f_below THEN <<<<y_f, max_x>>>> ELSE << >>)
         IN IF Len(ans) # 2 THEN Raised("ValueError")
            ELSE Returned(LineDrawCmd(ans[1][1], ans[1][2], ans[2][1], ans[2][2]))

\* hough_lines_channel up to the loops that fill acum
hough_lines_call(channel, theta, rho, thr, most_fitted_ratio, rounds_below) ==
    /\ call = NoCall
    /\ call' = [status |-> "running", fn |-> "hough_lines_channel", at |-> "acum",
                channel |-> channel, theta |-> theta, rho |-> rho, threshold |-> thr,
                most_fitted_ratio |-> most_fitted_ratio, rounds_below |-> rounds_below,
                best |-> << >>, todo |-> << >>, lines |-> << >>]
    /\ UNCHANGED <<aoVars, imVars>>

\* the accumulation, and best = np.hstack((rho[Y, None], theta[X, None]))
hough_best ==
    /\ call.status = "running" /\ call.fn = "hough_lines_channel" /\ call.at = "acum"
    /\ LET acum == accumulate(call.channel, call.theta, call.rho, call.threshold)
           best == Flatten(best_of(acum, call.theta, call.rho, call.most_fitted_ratio))
       IN call' = [call EXCEPT !.at = "lines", !.best = best, !.todo = best]
    /\ UNCHANGED <<aoVars, imVars>>

\* one element of the generator: get_border_points(rho, theta, channel.shape)
\* for the next row of best; its exception ends the call
hough_border_points ==
    /\ call.status = "running" /\ call.fn = "hough_lines_channel" /\ call.at = "lines"
    /\ call.todo # << >>
    /\ LET cell == Head(call.todo)
           line == get_border_points(cell[1], cell[2], <<Side, Side>>, call.rounds_below)
       IN call' = IF line.raised # ""
                  THEN [call EXCEPT !.status = "raised", !.lines = << >>]
                  ELSE [call EXCEPT !.todo = Tail(@), !.lines = Append(@, line.value)]
    /\ UNCHANGED <<aoVars, imVars>>

\* return channel, ImageChannelTransformation({'best': best}, {}, lines)
hough_lines_return ==
    /\ call.status = "running" /\ call.fn = "hough_lines_channel" /\ call.at = "lines"
    /\ call.todo = << >>
    /\ call' = [call EXCEPT !.status = "returned"]
    /\ UNCHANGED <<aoVars, imVars>>

NextHough ==
    \/ \E channel \in BinaryChannels, theta \in Thetas, rho \in Rhos, thr \in HoughThresholds,
          most_fitted_ratio \in MostFittedRatios, rounds_below \in BOOLEAN :
          hough_lines_call(channel, theta, rho, thr, most_fitted_ratio, rounds_below)
    \/ hough_best
    \/ hough_border_points
    \/ hough_lines_return

SpecHough == DetectorInit /\ [][NextHough]_vars

\* ---- Image.input, Image.last_transformation (image.py lines 206-208, 242-246)
MaxHistory == 2

InputNames == {"sigma", "threshold"}

InputValues == {1, 2}

\* a Dict[str, Any]: a function from its keys to their values
Dicts == UNION {[keys -> InputValues] : keys \in SUBSET InputNames}

ImageTransformation == [major_inputs : Dicts, minor_inputs : Dicts]

\* the transformations an image got before its last one
Earlier ==
    {[major_inputs |-> [n \in {"sigma"} |-> 1], minor_inputs |-> [n \in {"threshold"} |-> 2]],
     [major_inputs |-> [n \in {} |-> 1], minor_inputs |-> [n \in InputNames |-> 2]]}

\* the transformations lists of the images: empty for a loaded image
Histories ==
    {<< >>} \cup
    {Append(h, tr) : h \in UNION {[1 .. n -> Earlier] : n \in 0 .. MaxHistory - 1},
                     tr \in ImageTransformation}

\* d.get(key, default)
dict_get(d, key, default) == IF key \in DOMAIN d THEN d[key] ELSE default

\* image.input(input_name) is called
input_call(transformations, input_name) ==
    /\ call = NoCall
    /\ call' = [status |-> "running", fn |-> "Image.input",
                transformations |-> transformations, input_name |-> input_name,
                at |-> "last_transformation", tr |-> 0, default |-> 0,
                value |-> 0, raised |-> ""]
    /\ UNCHANGED <<aoVars, imVars>>

\* tr = self.last_transformation
last_transformation ==
    /\ call.status = "running" /\ call.fn = "Image.input" /\ call.at = "last_transformation"
    /\ call' = IF call.transformations = << >>
               THEN [call EXCEPT !.status = "raised", !.raised = "ValueError"]
               ELSE [call EXCEPT !.tr = Len(call.transformations), !.at = "default"]
    /\ UNCHANGED <<aoVars, imVars>>

\* the argument tr.minor_inputs[input_name] is evaluated before get is called
minor_inputs_getitem ==
    /\ call.status = "running" /\ call.fn = "Image.input" /\ call.at = "default"
    /\ LET minor_inputs == call.transformations[call.tr].minor_inputs
       IN call' = IF call.input_name \in DOMAIN minor_inputs
                  THEN [call EXCEPT !.default = minor_inputs[call.input_name], !.at = "get"]
                  ELSE [call EXCEPT !.status = "raised", !.raised = "KeyError"]
    /\ UNCHANGED <<aoVars, imVars>>

\* return tr.major_inputs.get(input_name, default)
major_inputs_get ==
    /\ call.status = "running" /\ call.fn = "Image.input" /\ call.at = "get"
    /\ call' = [call EXCEPT
                  !.value = dict_get(call.transformations[call.tr].major_inputs,
                                     call.input_name, call.default),
                  !.status = "returned"]
    /\ UNCHANGED <<aoVars, imVars>>

NextInput ==
    \/ \E transformations \in Histories, input_name \in InputNames :
          input_call(transformations, input_name)
    \/ last_transformation
    \/ minor_inputs_getitem
    \/ major_inputs_get

SpecInput == DetectorInit /\ [][NextInput]_vars

\* ---- render_image_window (interface.py lines 30-39)
MaxActivations == 2

ImageNames == {"lena.pgm", "circle.pgm"}

\* name.capitalize() for the names of the registry
capitalize(name) ==
    CASE name = "sobel" -> "Sobel"
      [] name = "canny" -> "Canny"
      [] name = "active_outline" -> "Active_outline"

\* The values TRANSFORMATIONS can have: an ordered mapping from names to the
\* functions that start the transformation, without repeated names.
Registries ==
    {r \in UNION {[1 .. n -> [name : TransformationNames, tr : TransformationNames]] :
                      n \in 1 .. Cardinality(TransformationNames)} :
        /\ \A k \in DOMAIN r : r[k].tr = r[k].name
        /\ \A j \in DOMAIN r, k \in DOMAIN r : r[j].name = r[k].name => j = k}

\* render_image_window(image_name) up to the loop over TRANSFORMATIONS, the
\* window not existing yet; name and tr are local variables of the call
render_image_window(image_name, registry) ==
    /\ call = NoCall
    /\ call' = [status |-> "running", fn |-> "render_image_window",
                image_name |-> image_name, TRANSFORMATIONS |-> registry,
                at |-> 1, name |-> "", tr |-> "",
                items |-> << >>, invoked |-> << >>]
    /\ UNCHANGED <<aoVars, imVars>>

\* one iteration of: for name, tr in TRANSFORMATIONS.items(): dpg.add_menu_item(...)
\* The lambda reads tr from the scope of render_image_window when it is called.
add_menu_item ==
    /\ call.status = "running" /\ call.fn = "render_image_window"
    /\ call.at <= Len(call.TRANSFORMATIONS)
    /\ LET entry == call.TRANSFORMATIONS[call.at]
       IN call' = [call EXCEPT
                     !.name = entry.name,
                     !.tr = entry.tr,
                     !.items = Append(@, [label |-> capitalize(entry.name),
                                         user_data |-> call.image_name,
                                         callback |-> "lambda s, ad, ud: tr(ud)"]),
                     !.at = @ + 1]
    /\ UNCHANGED <<aoVars, imVars>>

\* the loop is exhausted and the rest of the window is built (no statement
\* after the loop assigns to tr)
window_built ==
    /\ call.status = "running" /\ call.fn = "render_image_window"
    /\ call.at > Len(call.TRANSFORMATIONS)
    /\ call' = [call EXCEPT !.status = "built"]
    /\ UNCHANGED <<aoVars, imVars>>

\* the user activates the menu item: callback(sender, app_data, user_data),
\* that is tr(ud) with tr looked up now
activate_menu_item(item) ==
    /\ call.status = "built" /\ call.fn = "render_image_window"
    /\ item \in DOMAIN call.items
    /\ Len(call.invoked) < MaxActivations
    /\ call' = [call EXCEPT
                  !.invoked = Append(@, [item |-> item, tr |-> call.tr,
                                         ud |-> call.items[item].user_data])]
    /\ UNCHANGED <<aoVars, imVars>>

NextWindow ==
    \/ \E image_name \in ImageNames, registry \in Registries :
          render_image_window(image_name, registry)
    \/ add_menu_item
    \/ window_built
    \/ \E item \in 1 .. Cardinality(TransformationNames) : activate_menu_item(item)

SpecWindow == DetectorInit /\ [][NextWindow]_vars

\* ------------------------------------------------------------------ claims
OutSet == {p \in Pixels : phi[p] = 1}

InSet == {p \in Pixels : phi[p] = -1}

Adjacent4(p) ==
    {q \in Pixels : (q[1] = p[1] /\ Abs(q[2] - p[2]) = 1) \/ (q[2] = p[2] /\ Abs(q[1] - p[1]) = 1)}

NarrowBand == \A p \in Pixels : phi[p] = 3 => \A q \in Adjacent4(p) : phi[q] # -3

Bright == {p \in Pixels : image[p] = 2}

Rectangle == {p \in Pixels : p1[1] <= p[1] /\ p[1] <= p2[1] /\ p1[2] <= p[2] /\ p[2] <= p2[2]}

\* the distance of a pixel of the current frame to sigma is below the threshold
Below(p) == Abs(sigma.sum - image[p] * sigma.count) < threshold * sigma.count

\* C1: on return of the base run, the coordinates of the returned lout are
\* exactly the pixels with phi = 1 and those of the returned lin are exactly
\* the pixels with phi = -1.
C1_ListsMatchPhi ==
    pc = "done" /\ frame = 1 => Range(Lout) = OutSet /\ Range(Lin) = InSet

\* C2: from the initial boundaries of a rectangle of at least 3x3 pixels
\* strictly inside the image, after every point update of the evolution loop
\* and on return, no pixel with phi = 3 is 4-adjacent to a pixel with phi = -3.
C2_NarrowBand ==
    frame = 1 /\ pc \in {"while", "lout", "lin", "done"} => NarrowBand

\* a point update of the lout sweep has relabelled pixels and both extreme
\* labels are present
C2_Witness ==
    /\ frame = 1 /\ pc = "lout" /\ switched > 0
    /\ \E p \in Pixels : phi[p] = 3
    /\ \E p \in Pixels : phi[p] = -3

\* C3: every call of active_outline_all_channels returns: each sweep over the
\* growing lists ends and the while loop reaches a pass without a switch.
C3_Terminates == (pc # "done") ~> (pc = "done")

\* a run has returned after more than one pass, and the list it swept first
\* grew while it was swept
C3_Witness ==
    /\ pc = "done" /\ frame = 1 /\ passes >= 2
    /\ Len(store[<<0, "lout">>]) > Len(seeded[1].lout)

\* C4: on return, every point of the returned lin has a distance to sigma
\* below the threshold and every point of the returned lout has not; so for a
\* uniform bright object on a dark background, with the gap above the threshold
\* and the initial rectangle inside the object, the lin points are all inside
\* the object and the lout points all outside it.
C4_SidesOfThreshold ==
    pc = "done" =>
        /\ \A p \in Range(Lin) : Below(p)
        /\ \A p \in Range(Lout) : ~ Below(p)
        /\ (frame = 1 /\ Rectangle \subseteq Bright /\ 2 > threshold)
              => Range(Lin) \subseteq Bright /\ Range(Lout) \cap Bright = {}

\* the base run on an object that holds the rectangle and is smaller than the
\* image has returned with both lists non-empty
C4_Witness ==
    /\ pc = "done" /\ frame = 1 /\ 2 > threshold
    /\ Rectangle \subseteq Bright /\ Bright # Pixels
    /\ Lin # << >> /\ Lout # << >>

\* C5: the inductive run on a frame whose data equals the data the previous
\* frame converged on makes exactly one pass, switches no point, and returns
\* phi equal to the input phi and lout and lin equal, as sets, to the input.
C5_Idempotent ==
    pc = "done" /\ frame > 1 /\ image = recorded[frame - 1].data =>
        /\ passes = 1 /\ switched = 0
        /\ phi = recorded[frame - 1].phi
        /\ Range(Lout) = Range(recorded[frame - 1].lout)
        /\ Range(Lin) = Range(recorded[frame - 1].lin)

\* an inductive run on unchanged data has returned, after a base run that
\* moved the contour
C5_Witness ==
    /\ pc = "done" /\ frame = 2 /\ image = recorded[1].data
    /\ recorded[1].phi # seeded[1].phi
    /\ Lin # << >> /\ Lout # << >>

\* C6: the inductive run for frame k+1 leaves what frame k recorded as it was:
\* the phi array and the lout and lin lists held by the previous frame's record
\* have, after the call, the contents they had when the record was made.
C6_HistoryKept ==
    pc = "done" /\ frame > 1 =>
        /\ phi = recorded[frame - 1].phi
        /\ store[results[frame - 1].lout] = recorded[frame - 1].lout
        /\ store[results[frame - 1].lin] = recorded[frame - 1].lin

\* the transformations list an image holds
TransformationsOf(k) == tlists[images[k].transformations]

RECURSIVE Ancestors(_)
Ancestors(k) ==
    IF images[k].parent = 0 THEN {}
    ELSE {images[k].parent} \cup Ancestors(images[k].parent)

IsPrefix(a, b) == Len(a) <= Len(b) /\ SubSeq(b, 1, Len(a)) = a

\* C7: the list of an image made by transform is the receiver's list followed
\* by the given transformation, the receiver's list stays as it was (a loaded
\* image keeps its empty list), and the history of every ancestor is a prefix
\* of the history of each image derived from it.
C7_AppendOnly ==
    \A k \in 1 .. Len(images) :
        /\ images[k].parent = 0 => TransformationsOf(k) = << >>
        /\ images[k].parent # 0 =>
              TransformationsOf(k) = Append(TransformationsOf(images[k].parent), images[k].given)
        /\ \A a \in Ancestors(k) : IsPrefix(TransformationsOf(a), TransformationsOf(k))

\* an image was transformed twice and one of the results transformed again
C7_Witness ==
    \E k \in 1 .. Len(images), j \in 1 .. Len(images) :
        /\ j # k
        /\ images[k].parent # 0 /\ images[j].parent = images[k].parent
        /\ \E g \in 1 .. Len(images) : images[g].parent = k

\* C8: every inductive run starts from exactly the lout, lin and phi the
\* previous frame recorded, and the threshold and sigma it uses and records
\* are those of the base run.
C8_Handoff ==
    /\ \A k \in 2 .. Len(seeded) :
          /\ seeded[k].phi = recorded[k - 1].phi
          /\ seeded[k].lout = recorded[k - 1].lout
          /\ seeded[k].lin = recorded[k - 1].lin
    /\ frame > 1 => threshold = results[1].threshold /\ sigma = results[1].sigma
    /\ \A k \in 1 .. Len(results) :
          results[k].threshold = results[1].threshold /\ results[k].sigma = results[1].sigma

\* an inductive run on a changed frame, whose region mean differs from sigma,
\* has returned
C8_Witness ==
    /\ pc = "done" /\ frame = 2 /\ Len(results) = 2
    /\ image # recorded[1].data
    /\ sigma # calculate_sigma(image, <<p1[2], p2[2]>>, <<p1[1], p2[1]>>)
    /\ recorded[1].lout # << >> /\ recorded[1].lin # << >>

C10_CombineChecksFirst ==
    call.status # "idle" /\ call.kind = "combine" =>
        /\ call.channels # call.other =>
              /\ call.status = "raised"
              /\ call.invoked = << >> /\ call.channels_tr = << >> /\ ~ call.new_data
        /\ call.status = "raised" => call.channels # call.other
        /\ call.channels = call.other /\ call.status = "returned" =>
              /\ Len(call.invoked) = call.channels
              /\ \A c \in 0 .. call.channels - 1 :
                    Cardinality({k \in DOMAIN call.invoked : call.invoked[k] = c}) = 1

\* two RGB images have been combined
C10_Witness ==
    /\ call.status = "returned" /\ call.kind = "combine"
    /\ call.channels = 3 /\ call.other = 3

\* the undetermined pixels of the running canny call linked to a pixel that
\* reached t2 by an 8-connected chain of undetermined pixels
Undetermined == {p \in Grid : call.t1 < call.thresholded[p] /\ call.thresholded[p] < call.t2}

Adjacent8(p, q) == p # q /\ Abs(p[1] - q[1]) <= 1 /\ Abs(p[2] - q[2]) <= 1

RECURSIVE Chained(_, _)
Chained(S, n) ==
    IF n = 0 THEN S
    ELSE Chained(S \cup {p \in Undetermined : \E q \in S : Adjacent8(p, q)}, n - 1)

Linked == Chained({p \in Grid : call.thresholded[p] = MAX_COLOR}, Side * Side) \cap Undetermined

\* C11: in the output of canny_channel every undetermined pixel linked to a
\* pixel with value >= t2 by an 8-connected chain of undetermined pixels is
\* 255, and every undetermined pixel without such a chain is 0.
C11_HysteresisTransitive ==
    call.status = "returned" /\ call.fn = "canny_channel" =>
        \A p \in Undetermined :
            call.gradient_mod[p] = IF p \in Linked THEN MAX_COLOR ELSE 0

\* C12: each output pixel of harris_channel is one of 0, 125 and 255: 0 when
\* the normalized |R| is below the threshold, 125 when it is above and R is
\* negative, 255 when it is above and R is not negative.
C12_ThreeLevels ==
    call.status = "returned" /\ call.fn = "harris_channel" =>
        \A n \in Pixel :
            /\ \E level \in {0, 125, 255} : eq(call.normalized_r[n], Frac(level, 1))
            /\ lt(call.raw[n], call.threshold) => eq(call.normalized_r[n], Frac(0, 1))
            /\ gt(call.raw[n], call.threshold) /\ call.r[n].num < 0
                  => eq(call.normalized_r[n], Frac(125, 1))
            /\ gt(call.raw[n], call.threshold) /\ call.r[n].num >= 0
                  => eq(call.normalized_r[n], Frac(255, 1))

HasResponse == call.status # "idle" /\ call.fn = "harris_channel" /\ call.at # "r"

\* C13 as claimed: calculate_r1 is (ix2*iy2 - ixy*ixy) - k*(ix2 + iy2)^2 and
\* calculate_r2 is (ix2*iy2 - 4*ixy) - k*(ix2 + iy2), the trace not squared.
C13_UnsquaredTrace ==
    HasResponse =>
        \A n \in Pixel :
            LET a == call.ix2[n]
                b == call.ixy[n]
                c == call.iy2[n]
            IN eq(call.r[n],
                  IF call.r_function = "R1"
                  THEN Frac((a * c - b * b) * call.k.den - call.k.num * (a + c) * (a + c), call.k.den)
                  ELSE Frac((a * c - 4 * b) * call.k.den - call.k.num * (a + c), call.k.den))

\* C13 as amended: calculate_r1 is (ix2*iy2 - ixy*ixy) - k*(ix2 + iy2)^2 and
\* calculate_r2 is (ix2*iy2 - 4*ixy) - k*(ix2 + iy2)^2: both square the trace.
C13_SquaredTrace ==
    HasResponse =>
        \A n \in Pixel :
            LET a == call.ix2[n]
                b == call.ixy[n]
                c == call.iy2[n]
            IN eq(call.r[n],
                  IF call.r_function = "R1"
                  THEN Frac((a * c - b * b) * call.k.den - call.k.num * (a + c) * (a + c), call.k.den)
                  ELSE Frac((a * c - 4 * b) * call.k.den - call.k.num * (a + c) * (a + c), call.k.den))

\* R2 was computed with k > 0 at a pixel where ixy*ixy differs from 4*ixy and
\* the trace from its square
C13_Witness ==
    /\ HasResponse /\ call.r_function = "R2" /\ call.k.num > 0
    /\ \E n \in Pixel :
          /\ call.ixy[n] * call.ixy[n] # 4 * call.ixy[n]
          /\ call.ix2[n] + call.iy2[n] > 1

\* the cells of the circular mask around the interior pixel of the susan call
\* whose intensity is within 15 of the centre
SimilarInMask ==
    {d \in KernelCells :
        /\ kernel_at(d) = 1
        /\ Abs(call.sw[d] - call.channel[<<call.row, call.col>>]) < 15}

\* the band of the ratio 1 - count/size
Band(count, size) ==
    IF (size - count) * 5 < 2 * size \/ (size - count) * 20 >= 17 * size THEN 0
    ELSE IF (size - count) * 20 < 13 * size THEN 63
    ELSE 255

\* C14: at an interior pixel the similar count of susan_channel is the number
\* of cells inside the circular mask that differ from the centre by less than
\* 15, cells outside the mask never counting, and the output is 0, 63 or 255
\* by the band of 1 - similar_count/mask_size.
C14_CountInsideMask ==
    call.status = "returned" /\ call.fn = "susan_channel" =>
        /\ call.similar_count = Cardinality(SimilarInMask)
        /\ \A d \in KernelCells : kernel_at(d) = 0 => call.absolute_values[d] = 0
        /\ eq(call.values, Frac(Band(call.similar_count, Cardinality(KernelCells)), 1))

\* line(n) is a flat region A = line(0) up to index k, then at most one exact
\* zero, then a flat region B of the opposite sign up to the last index, with
\* |A - B| above the threshold of the call
StepAt(line, k) ==
    \E gap \in {0, 1} :
        /\ k + gap + 1 <= Side - 1
        /\ \A n \in 0 .. k : line[n] = line[0]
        /\ gap = 1 => line[k + 1] = 0
        /\ \A n \in k + gap + 1 .. Side - 1 : line[n] = line[Side - 1]
        /\ line[0] * line[Side - 1] < 0
        /\ Abs(line[0] - line[Side - 1]) > call.threshold

RowOf(a, r) == [n \in 0 .. Side - 1 |-> a[<<r, n>>]]

ColumnOf(a, c) == [n \in 0 .. Side - 1 |-> a[<<n, c>>]]

\* C15: in a row (column) that is a flat region A, at most one exact zero and
\* a flat region B of the opposite sign, with |A - B| above the threshold,
\* zero_crossing_horizontal (zero_crossing_vertical) marks the last pixel of A
\* and no other pixel; zero_crossing_borders returns 255 at the marked pixels
\* and 0 elsewhere; the last column is never marked horizontally and the last
\* row never vertically.
C15_StepEdge ==
    call.status = "returned" /\ call.fn = "zero_crossing_borders" =>
        /\ \A r \in 0 .. Side - 1, k \in 0 .. Side - 1 :
              StepAt(RowOf(call.data, r), k) =>
                  \A n \in 0 .. Side - 1 : call.horizontal[<<r, n>>] <=> n = k
        /\ \A c \in 0 .. Side - 1, k \in 0 .. Side - 1 :
              StepAt(ColumnOf(call.data, c), k) =>
                  \A n \in 0 .. Side - 1 : call.vertical[<<n, c>>] <=> n = k
        /\ \A p \in Grid :
              call.ret[p] = IF call.vertical[p] \/ call.horizontal[p] THEN MAX_COLOR ELSE 0
        /\ \A n \in 0 .. Side - 1 :
              ~ call.horizontal[<<n, Side - 1>>] /\ ~ call.vertical[<<Side - 1, n>>]

\* a call has returned on a channel with a row that steps through an exact
\* zero and a column that steps directly
C15_Witness ==
    /\ call.status = "returned" /\ call.fn = "zero_crossing_borders"
    /\ \E r \in 0 .. Side - 1, k \in 0 .. Side - 1 :
          /\ StepAt(RowOf(call.data, r), k)
          /\ call.data[<<r, k + 1>>] = 0
          /\ call.ret[<<r, k>>] = MAX_COLOR
    /\ \E c \in 0 .. Side - 1, k \in 0 .. Side - 1 :
          /\ StepAt(ColumnOf(call.data, c), k)
          /\ call.data[<<k + 1, c>>] # 0
          /\ call.ret[<<k, c>>] = MAX_COLOR

GradientReturned ==
    call.status = "returned" /\ call.fn \in {"prewitt_channel", "sobel_channel"}

Constant(channel) == \A p \in Grid : channel[p] = channel[<<0, 0>>]

\* the pixels whose 3x3 neighbourhood lies inside the channel
Interior == {p \in Grid : \A a \in {-1, 1}, b \in {-1, 1} : <<p[1] + a, p[2] + b>> \in Grid}

Ring(kernel) ==
    <<kernel[1][1], kernel[1][2], kernel[1][3], kernel[2][3],
      kernel[3][3], kernel[3][2], kernel[3][1], kernel[2][1]>>

\* the kernel turned by n steps of its ring about its centre
Turned(kernel, n) ==
    LET ring == Ring(kernel)
        at(k) == ring[((k - 1 - n) % 8) + 1]
    IN <<<<at(1), at(2), at(3)>>, <<at(8), kernel[2][2], at(4)>>, <<at(7), at(6), at(5)>>>>

RingNotSymmetric(kernel) == \A n \in 1 .. 7 : Turned(kernel, n) # kernel

\* the kernel after n successive alignments with HORIZONTAL
RECURSIVE Aligned(_, _)
Aligned(kernel, n) ==
    IF n = 0 THEN Returned(kernel)
    ELSE LET before == Aligned(kernel, n - 1)
         IN IF before.raised # "" THEN before
            ELSE align_vertical_kernel("HORIZONTAL", before.value)

\* C17: for a 3x3 vertical kernel whose border ring is not rotation-symmetric
\* align_vertical_kernel succeeds for each of the four directions, the four
\* results are pairwise distinct rotations of the kernel about its centre, and
\* four successive 90-degree alignments give the kernel back.
C17_AlignedRotations ==
    /\ call.status # "idle" /\ call.fn = "directional_channel" /\ call.status # "running"
    /\ RingNotSymmetric(call.vertical_kernel)
    => /\ call.status = "aligned"
       /\ \E n \in 0 .. 7 : call.kernel = Turned(call.vertical_kernel, n)
       /\ \A d \in DOMAIN Direction, e \in DOMAIN Direction :
             /\ align_vertical_kernel(d, call.vertical_kernel).raised = ""
             /\ d # e => align_vertical_kernel(d, call.vertical_kernel)
                            # align_vertical_kernel(e, call.vertical_kernel)
       /\ Aligned(call.vertical_kernel, 4) = Returned(call.vertical_kernel)

HoughEnded ==
    call.status \in {"returned", "raised"} /\ call.fn = "hough_lines_channel"

\* the white pixels of the channel of the hough call are exactly the line of
\* the cell (rho, theta): a full column for theta = 0, a full row for 90
OnlyLine(rho_, theta_) ==
    \A p \in Grid :
        call.channel[p] > 0 <=> (IF theta_ = 0 THEN p[2] = rho_ ELSE p[1] = rho_)

InGrid(rho_, theta_) ==
    /\ \E k \in 1 .. Len(call.rho) : call.rho[k] = rho_
    /\ \E k \in 1 .. Len(call.theta) : call.theta[k] = theta_

\* the segment between the two intersections of the line of the cell with the
\* image boundary
Crossing(rho_, theta_) ==
    IF theta_ = 0 THEN LineDrawCmd(0, rho_, Side - 1, rho_)
    ELSE LineDrawCmd(rho_, 0, rho_, Side - 1)

\* C18: when the white pixels are exactly one full row or column, first and
\* last included, and the grid holds its (rho, theta), hough_lines_channel
\* selects that cell and get_border_points returns for it, without raising,
\* the segment between the two intersections of the line with the boundary.
C18_SpanningLine ==
    HoughEnded =>
        \A rho_ \in 0 .. Side - 1, theta_ \in {0, 90} :
            OnlyLine(rho_, theta_) /\ InGrid(rho_, theta_) =>
                /\ \E k \in 1 .. Len(call.best) : call.best[k] = <<rho_, theta_>>
                /\ get_border_points(rho_, theta_, <<Side, Side>>, call.rounds_below)
                       = Returned(Crossing(rho_, theta_))

\* the segment lies on the image
WithinImage(line) ==
    /\ line.y0 \in 0 .. Side - 1 /\ line.y1 \in 0 .. Side - 1
    /\ line.x0 \in 0 .. Side - 1 /\ line.x1 \in 0 .. Side - 1
    /\ <<line.y0, line.x0>> # <<line.y1, line.x1>>

\* the line of the cell meets the image
MeetsImage(cell) == cell[1] \in 0 .. Side - 1

\* C19: hough_lines_channel returns overlays only when the line of every
\* selected cell, theta = 0 included, meets the image boundary in two points
\* within the image, each overlay joining two such points; otherwise it raises
\* ValueError and returns nothing.
C19_TwoIntersections ==
    HoughEnded =>
        /\ call.status = "returned" =>
              /\ \A k \in 1 .. Len(call.best) : MeetsImage(call.best[k])
              /\ \A k \in 1 .. Len(call.lines) : WithinImage(call.lines[k])
        /\ (\E k \in 1 .. Len(call.best) : ~ MeetsImage(call.best[k])) =>
              call.status = "raised" /\ call.lines = << >>

\* C20: on return of the base run no boundary pixel is redundant: every pixel
\* with phi = -1 has a 4-neighbour inside the image with phi > 0 and every
\* pixel with phi = 1 has a 4-neighbour inside the image with phi < 0.
C20_NoRedundantBoundary ==
    pc = "done" /\ frame = 1 =>
        /\ \A p \in InSet : \E q \in Adjacent4(p) : phi[q] > 0
        /\ \A p \in OutSet : \E q \in Adjacent4(p) : phi[q] < 0

\* C21: the while loop makes at most two passes: once the second pass has
\* begun no point is switched, no value of phi changes and lout and lin keep
\* their members until the call returns.
C21_TwoPasses ==
    [][/\ passes' <= 2
       /\ (passes >= 2 /\ pc # "done") =>
             /\ switched' = 0
             /\ phi' = phi
             /\ Range(Lout') = Range(Lout)
             /\ Range(Lin') = Range(Lin)]_vars

\* a run whose first pass moved the contour has returned after its second pass
C21_Witness ==
    /\ pc = "done" /\ passes = 2
    /\ recorded[frame].phi # seeded[frame].phi
    /\ Range(recorded[frame].lout) # Range(seeded[frame].lout)

NoDuplicate(s) == \A a \in DOMAIN s, b \in DOMAIN s : s[a] = s[b] => a = b

\* C22: on return of the base run, started from the initial boundaries of a
\* rectangle of at least 3x3 pixels inside the image, lout and lin each hold
\* no coordinate twice, every coordinate is inside the image and no
\* coordinate is in both lists.
C22_DistinctInside ==
    pc = "done" /\ frame = 1 =>
        /\ NoDuplicate(Lout) /\ NoDuplicate(Lin)
        /\ Range(Lout) \subseteq Pixels /\ Range(Lin) \subseteq Pixels
        /\ Range(Lout) \cap Range(Lin) = {}

\* the base run has returned both lists after switching points in both
\* directions, the lists it swept holding coordinates more than once
C22_Witness ==
    /\ pc = "done" /\ frame = 1
    /\ remove_lout # << >> /\ remove_lin # << >>
    /\ Lout # << >> /\ Lin # << >>
    /\ ~ NoDuplicate(store[<<0, "lout">>]) /\ ~ NoDuplicate(store[<<0, "lin">>])

\* the first, row-major loop of the canny call is over
FirstPassOver(c) == c.status # "idle" /\ c.fn = "canny_channel" /\ c.loop \in {"horizontal", "end"}

\* C23: with 0 <= t1 < t2 <= 255, once the row-major pass of canny_channel is
\* over every pixel is 0 or 255, no iteration of the column-major pass changes
\* a pixel, and so the returned array holds only 0 and 255.
C23_BinaryAfterFirstPass ==
    [][FirstPassOver(call') =>
          /\ \A p \in Grid : call'.gradient_mod[p] \in {0, MAX_COLOR}
          /\ FirstPassOver(call) => call'.gradient_mod = call.gradient_mod]_vars

\* canny_channel has returned on a gradient where one undetermined pixel was
\* promoted to 255 and another was set to 0
C23_Witness ==
    /\ call.status = "returned" /\ call.fn = "canny_channel"
    /\ 0 <= call.t1 /\ call.t1 < call.t2 /\ call.t2 <= MAX_COLOR
    /\ \E p \in Grid : call.thresholded[p] \notin {0, MAX_COLOR} /\ call.gradient_mod[p] = MAX_COLOR
    /\ \E p \in Grid : call.thresholded[p] \notin {0, MAX_COLOR} /\ call.gradient_mod[p] = 0

\* C24: Image.input(name) returns major_inputs[name] of the last
\* transformation whenever name is a key of major_inputs, whether or not it
\* is a key of minor_inputs; it returns minor_inputs[name] when name is a key
\* of minor_inputs only; it raises only when name is a key of neither or the
\* image has no transformations.
C24_MajorFirst ==
    call.status \in {"returned", "raised"} /\ call.fn = "Image.input" =>
        LET has == call.transformations # << >>
            tr == call.transformations[Len(call.transformations)]
            name == call.input_name
        IN /\ has /\ name \in DOMAIN tr.major_inputs =>
                 call.status = "returned" /\ call.value = tr.major_inputs[name]
           /\ has /\ name \notin DOMAIN tr.major_inputs /\ name \in DOMAIN tr.minor_inputs =>
                 call.status = "returned" /\ call.value = tr.minor_inputs[name]
           /\ call.status = "raised" =>
                 \/ ~ has
                 \/ name \notin DOMAIN tr.major_inputs /\ name \notin DOMAIN tr.minor_inputs

\* C25: in a window built by render_image_window, activating the Transform
\* menu item labelled with the name of an entry (name, tr) of TRANSFORMATIONS
\* invokes that entry's tr, and no other transformation, on the name of the
\* window's image.
C25_ItemInvokesItsEntry ==
    call.status = "built" /\ call.fn = "render_image_window" =>
        /\ Len(call.items) = Len(call.TRANSFORMATIONS)
        /\ \A k \in DOMAIN call.items :
              call.items[k].label = capitalize(call.TRANSFORMATIONS[k].name)
        /\ \A j \in DOMAIN call.invoked :
              /\ call.invoked[j].tr = call.TRANSFORMATIONS[call.invoked[j].item].tr
              /\ call.invoked[j].ud = call.image_name

====
